---- MODULE Spec2Model ----
(***************************************************************************)
(* Model of the BENCHLAB multiplexer (apps/muxd): the Stage Pairer of      *)
(* apps/muxd/latency.py and the scheduling loop of apps/muxd/main.py.      *)
(*                                                                         *)
(* Timestamps are nanoseconds as integers.  Python integers are unbounded, *)
(* TLC's are 32-bit, so every timestamp of the model stays below 2^31.     *)
(* A latency in ms, the float (tb - ta)/1e6, is kept as the exact fraction *)
(* [num |-> tb - ta, den |-> 1000000].                                     *)
(***************************************************************************)
EXTENDS Integers, Sequences, FiniteSets, TLC

\* ------------------------------------------------------------------------
\* Constants of the program
\* ------------------------------------------------------------------------
WINDOW_NS == 2000000000
MAX_BUFFER_SIZE == 100
NS_PER_MS == 1000000

StageA == "ingress"
StageB == "encoded"
None == "None"

\* ------------------------------------------------------------------------
\* Bounds of the model
\* ------------------------------------------------------------------------
\* events of the two configured stages fed to a Pairer with free timestamps
MaxAdds == 4
\* events fed by the ramp feeds: enough to overflow one queue
MaxRamp == 102
\* events of the short stage in a ramp feed
MaxShort == 2
\* events fed by the sorted feed
MaxSorted == 5
\* the largest max_retries a stream_telemetry call is given
MaxRetries == 5
\* readings one stream_telemetry call yields
MaxReadings == 2
\* streams the server ends without an error during one call
MaxEnds == 2
\* entries of the sessions directory
MaxSessions == 2
\* records the producer writes to the input file
MaxRecords == 3
\* lines the producers append to the input files, all files together
MaxLines == 6
\* unread lines the input files hold, all files together
MaxAhead == 1

\* ------------------------------------------------------------------------
\* Pairer (apps/muxd/latency.py)
\* ------------------------------------------------------------------------
VARIABLES
  bufA,      \* Pairer.bufA: deque of stage-A records, oldest first
  bufB,      \* Pairer.bufB: deque of stage-B records, oldest first
  out,       \* the local list `out` of a running Pairer.pairs call
  ppc,       \* "idle", or "pairs" while Pairer.pairs is inside its loop
  ret,       \* what the most recent Pairer call returned: <<>> for
             \* None, <<list>> for a list
  last,      \* the most recent Pairer call or loop iteration, with the
             \* queues it started from and, for add, <<the record added>>
  feed,      \* which events the harness feeds the Pairer
  addedA,    \* every stage-A record added since construction, in order
  addedB,    \* every stage-B record added since construction, in order
  phase,     \* "adding": no pairs call yet; "first": the first pairs call,
             \* no add since; "later"
  fate       \* what the harness saw happen to each event it added:
             \* a[i], b[i] are "buffered", "paired", "stale" (removed by
             \* the loop without a sample) or "evicted" (removed by add)
             \* for the i-th A and B event added, n counts the samples
             \* and t lists their t_ns in the order the loop emitted them

pvars == <<bufA, bufB, out, ppc, ret, last, feed, addedA, addedB, phase, fate>>

\* ------------------------------------------------------------------------
\* Multiplexer (apps/muxd/main.py)
\* ------------------------------------------------------------------------
VARIABLES
  written,          \* per input file: the number of lines appended so far
  pending,          \* per input file: the lines beyond the reader's offset
                    \* (beyond offset 0 while the reader has not opened it)
  opened,           \* per reader: tail_file has run open() and seek(0, END)
  waiting,          \* the reader that is inside time.sleep(0.05), or None
  mpc,              \* the reader the for loop is polling, "sleep" at the
                    \* end of a round, "crashed" after an uncaught exception
  last_power,       \* <<>> for None, <<w>> for the float w
  device_info_set,
  i_device,         \* the identity published through the Info metric
  g_total_power,    \* gauge benchlab_total_power_w, <<>> while never set
  g_latency,        \* gauge benchlab_pipeline_latency_ms, <<>> while never set
  c_dropped,        \* counter benchlab_pipeline_dropped
  aligned_latency,  \* the records flushed to aligned/latency.jsonl
  unflushed,        \* the records written to the file object and not flushed
  openpos,          \* per reader: the line count of its file at seek(0, END)
  power_rec,        \* <<>>, or <<kv>> of the most recent benchlab record
                    \* handled that carries a power field
  mlast             \* the most recent poll: reader, outcome, line, and the
                    \* queues, power, identity and output it started from

mvars == <<written, pending, opened, waiting, mpc, last_power, device_info_set,
           i_device, g_total_power, g_latency, c_dropped, aligned_latency,
           unflushed, openpos, power_rec, mlast>>

\* ------------------------------------------------------------------------
\* BenchLabClient.stream_telemetry (libs/benchlab_sdk/benchlab_client.py)
\* ------------------------------------------------------------------------
VARIABLES
  max_retries,   \* the argument of the call
  retry_count,
  cpc,           \* "idle": not called; "while": at the loop test; "request":
                 \* inside _request; "stream": inside iter_lines; "sleep":
                 \* inside time.sleep(wait_time); "raised": BenchLabError
                 \* left the generator; "done": the generator returned
  wait_time,     \* the last wait_time computed, in seconds
  failed,        \* the attempts that failed since the call or since the
                 \* last connection that succeeded
  readings,      \* the number of readings yielded
  ended          \* the number of streams the server ended without an error

cvars == <<max_retries, retry_count, cpc, wait_time, failed, readings, ended>>

\* ------------------------------------------------------------------------
\* One input file, its producer and its reader at the level of characters
\* (pipeline_probes/r5c_capture.py write_event, muxd/main.py tail_file)
\* ------------------------------------------------------------------------
VARIABLES
  tfile,     \* the characters the file holds
  wbuf,      \* the characters write_event has written that are still in the
             \* producer's buffer
  twritten,  \* the number of write_event calls
  topen,     \* <<>> before tail_file has opened the file, else <<the
             \* position its seek to the end gave>>
  rpos,      \* the reader's position in the file
  tdec,      \* the records json.loads has decoded, in order
  tskipped,  \* the lines json.loads has rejected, in order
  tgot       \* the outcome of the last poll: "init", "empty", "record", "skip"

tvars == <<tfile, wbuf, twritten, topen, rpos, tdec, tskipped, tgot>>

\* ------------------------------------------------------------------------
\* The retention daemon (apps/retentiond/main.py)
\* ------------------------------------------------------------------------
VARIABLES
  rpc,          \* "idle": not started; "sweep": in the for loop; "returned":
                \* main returned; "sleeping": in the while True loop;
                \* "error": an exception left main
  run_once,     \* args.run_once
  root_exists,  \* root.exists()
  sess,         \* the entries of the sessions directory, in sorted order
  ridx          \* the entry the for loop is at

rvars == <<rpc, run_once, root_exists, sess, ridx>>

vars == <<pvars, mvars, cvars, tvars, rvars>>

Min(x, y) == IF x <= y THEN x ELSE y
Abs(x) == IF x < 0 THEN -x ELSE x

\* rec.get("kv",{}).get("stage"): None when the record has no kv
StageOf(rec) == IF rec.kv.form = "map" THEN rec.kv.stage ELSE None

\* mutants of PushBounded: appendleft for append; pop for popleft; > for >=
PushBoundedLeft(q, rec) ==
  IF Len(q) >= MAX_BUFFER_SIZE THEN <<rec>> \o Tail(q) ELSE <<rec>> \o q

PushBoundedPop(q, rec) ==
  IF Len(q) >= MAX_BUFFER_SIZE THEN Append(SubSeq(q, 1, Len(q) - 1), rec)
  ELSE Append(q, rec)

PushBoundedGt(q, rec) ==
  IF Len(q) > MAX_BUFFER_SIZE THEN Append(Tail(q), rec) ELSE Append(q, rec)

\* deque.append with the capacity test of Pairer.add: a full deque loses
\* its oldest element first
PushBounded(q, rec) ==
  IF Len(q) >= MAX_BUFFER_SIZE THEN Append(Tail(q), rec) ELSE Append(q, rec)

\* Pairer.add: the queues after add(rec)
AddA(qa, rec) == IF StageOf(rec) = StageA THEN PushBounded(qa, rec) ELSE qa

\* mutant of AddB: else for elif stage == self.b
AddBElse(qb, rec) == IF StageOf(rec) = StageA THEN qb ELSE PushBounded(qb, rec)

AddB(qb, rec) ==
  IF StageOf(rec) = StageA THEN qb
  ELSE IF StageOf(rec) = StageB THEN PushBounded(qb, rec) ELSE qb

\* mutant of LatMs: the operands of the subtraction swapped
LatMsSwapped(ta, tb) == [num |-> ta - tb, den |-> NS_PER_MS]

\* (tb - ta)/1e6
LatMs(ta, tb) == [num |-> tb - ta, den |-> NS_PER_MS]

\* the dict appended to `out`
Sample(ta, tb) == [t_ns |-> ta, lat_ms |-> LatMs(ta, tb), pair |-> <<StageA, StageB>>]

\* mutant of StaleB: without the test of the distance
StaleBAny(ta, tb) == tb < ta

\* the two discard tests of the loop body
StaleB(ta, tb) == tb < ta /\ (ta - tb) > WINDOW_NS
\* mutants of StaleA: the operands of the first test swapped; >= for >
StaleASwapped(ta, tb) == tb < ta /\ (tb - ta) > WINDOW_NS

StaleAGe(ta, tb) == ta < tb /\ (tb - ta) >= WINDOW_NS

StaleA(ta, tb) == ta < tb /\ (tb - ta) > WINDOW_NS

\* mutant of PairStep: the A head is matched with the newest B event
PairStepNewestB(s) ==
  LET ta == Head(s.a).ts_aligned_ns
      tb == s.b[Len(s.b)].ts_aligned_ns
      rest == SubSeq(s.b, 1, Len(s.b) - 1)
  IN  IF StaleB(ta, tb) THEN [a |-> s.a, b |-> rest, o |-> s.o]
      ELSE IF StaleA(ta, tb) THEN [a |-> Tail(s.a), b |-> s.b, o |-> s.o]
      ELSE [a |-> Tail(s.a), b |-> rest, o |-> Append(s.o, Sample(ta, tb))]

\* mutant of PairStep: a stale A head is not removed
PairStepKeepsStale(s) ==
  LET ta == Head(s.a).ts_aligned_ns
      tb == Head(s.b).ts_aligned_ns
  IN  IF StaleB(ta, tb) THEN [a |-> s.a, b |-> Tail(s.b), o |-> s.o]
      ELSE IF StaleA(ta, tb) THEN s
      ELSE [a |-> Tail(s.a), b |-> Tail(s.b), o |-> Append(s.o, Sample(ta, tb))]

\* the iteration, were a pairing to leave the B event at the head of its queue
PairStepKeepsB(s) ==
  LET ta == Head(s.a).ts_aligned_ns
      tb == Head(s.b).ts_aligned_ns
  IN  IF StaleB(ta, tb) THEN [a |-> s.a, b |-> Tail(s.b), o |-> s.o]
      ELSE IF StaleA(ta, tb) THEN [a |-> Tail(s.a), b |-> s.b, o |-> s.o]
      ELSE [a |-> Tail(s.a), b |-> s.b, o |-> Append(s.o, Sample(ta, tb))]

\* the iteration, were a pairing to take the newest A event
PairStepNewestA(s) ==
  LET ta == s.a[Len(s.a)].ts_aligned_ns
      tb == Head(s.b).ts_aligned_ns
  IN  IF StaleB(Head(s.a).ts_aligned_ns, tb) THEN [a |-> s.a, b |-> Tail(s.b), o |-> s.o]
      ELSE IF StaleA(Head(s.a).ts_aligned_ns, tb) THEN [a |-> Tail(s.a), b |-> s.b, o |-> s.o]
      ELSE [a |-> SubSeq(s.a, 1, Len(s.a) - 1), b |-> Tail(s.b),
            o |-> Append(s.o, Sample(ta, tb))]

\* one iteration of the while loop of Pairer.pairs, on s = [a, b, o]
\* (bufA, bufB, out) with both queues non-empty
PairStep(s) ==
  LET ta == Head(s.a).ts_aligned_ns
      tb == Head(s.b).ts_aligned_ns
  IN  IF StaleB(ta, tb) THEN [a |-> s.a, b |-> Tail(s.b), o |-> s.o]
      ELSE IF StaleA(ta, tb) THEN [a |-> Tail(s.a), b |-> s.b, o |-> s.o]
      ELSE [a |-> Tail(s.a), b |-> Tail(s.b), o |-> Append(s.o, Sample(ta, tb))]

\* while self.bufA and self.bufB
LoopCond(s) == s.a # <<>> /\ s.b # <<>>

\* the whole loop of Pairer.pairs
RECURSIVE PairLoop(_)
PairLoop(s) == IF LoopCond(s) THEN PairLoop(PairStep(s)) ELSE s

\* Pairer.pairs called on queues qa, qb: [a, b, o] = queues left, list returned
Pairs(qa, qb) == PairLoop([a |-> qa, b |-> qb, o |-> <<>>])

PairerInit ==
  /\ bufA = <<>>
  /\ bufB = <<>>
  /\ out = <<>>
  /\ ppc = "idle"
  /\ ret = <<>>
  /\ last = [op |-> "init", a |-> <<>>, b |-> <<>>, o |-> <<>>, rec |-> <<>>]
  /\ addedA = <<>>
  /\ addedB = <<>>
  /\ phase = "adding"
  /\ fate = [a |-> <<>>, b |-> <<>>, n |-> 0, t |-> <<>>]

\* the fates fs of the events `added`, after the queue q of them became q2
\* in a step that emitted `grown` samples and appended `more` events (0, 1):
\* an event the queue lost was its head
Seen(fs, added, q, q2, grown, more) ==
  LET lost == Len(q) + more - Len(q2)
      how == IF more = 1 THEN "evicted" ELSE IF grown > 0 THEN "paired" ELSE "stale"
      old == [i \in 1..Len(fs) |->
                IF i > Len(added) - Len(q) /\ i <= Len(added) - Len(q) + lost
                THEN how ELSE fs[i]]
  IN  IF more = 1 THEN Append(old, "buffered") ELSE old

\* a call Pairer.add(rec)
Add(rec) ==
  /\ ppc = "idle"
  /\ bufA' = AddA(bufA, rec)
  /\ bufB' = AddB(bufB, rec)
  /\ ret' = <<>>
  /\ last' = [op |-> "add", a |-> bufA, b |-> bufB, o |-> out, rec |-> <<rec>>]
  /\ addedA' = IF StageOf(rec) = StageA THEN Append(addedA, rec) ELSE addedA
  /\ addedB' = IF StageOf(rec) = StageB THEN Append(addedB, rec) ELSE addedB
  /\ phase' = IF phase = "adding" THEN "adding" ELSE "later"
  /\ fate' = [a |-> IF StageOf(rec) = StageA
                    THEN Seen(fate.a, addedA, bufA, AddA(bufA, rec), 0, 1) ELSE fate.a,
              b |-> IF StageOf(rec) = StageB
                    THEN Seen(fate.b, addedB, bufB, AddB(bufB, rec), 0, 1) ELSE fate.b,
              n |-> fate.n,
              t |-> fate.t]
  /\ UNCHANGED <<out, ppc, feed>>

\* Pairer.pairs is entered: out=[]
PairsCall ==
  /\ ppc = "idle"
  /\ ppc' = "pairs"
  /\ out' = <<>>
  /\ last' = [op |-> "call", a |-> bufA, b |-> bufB, o |-> <<>>, rec |-> <<>>]
  /\ phase' = IF phase = "adding" THEN "first" ELSE "later"
  /\ UNCHANGED <<bufA, bufB, ret, feed, addedA, addedB, fate>>

\* one iteration of its loop
PairsIter ==
  /\ ppc = "pairs"
  /\ LoopCond([a |-> bufA, b |-> bufB, o |-> out])
  /\ LET s == PairStep([a |-> bufA, b |-> bufB, o |-> out])
     IN  /\ bufA' = s.a
         /\ bufB' = s.b
         /\ out' = s.o
         /\ fate' = [a |-> Seen(fate.a, addedA, bufA, s.a, Len(s.o) - Len(out), 0),
                     b |-> Seen(fate.b, addedB, bufB, s.b, Len(s.o) - Len(out), 0),
                     n |-> fate.n + Len(s.o) - Len(out),
                     t |-> fate.t \o [i \in 1..(Len(s.o) - Len(out)) |->
                                        s.o[Len(out) + i].t_ns]]
  /\ last' = [op |-> "iter", a |-> bufA, b |-> bufB, o |-> out, rec |-> <<>>]
  /\ UNCHANGED <<ppc, ret, feed, addedA, addedB, phase>>

\* the loop ends: return out
PairsReturn ==
  /\ ppc = "pairs"
  /\ ~LoopCond([a |-> bufA, b |-> bufB, o |-> out])
  /\ ppc' = "idle"
  /\ ret' = <<out>>
  /\ last' = [op |-> "return", a |-> bufA, b |-> bufB, o |-> out, rec |-> <<>>]
  /\ UNCHANGED <<bufA, bufB, out, feed, addedA, addedB, phase, fate>>

\* ------------------------------------------------------------------------
\* The harness feeding the Pairer
\* ------------------------------------------------------------------------
Feeds == {"any", "rampA", "rampB", "sorted"}
Stages == {StageA, StageB, "inference_done", None}
TS == {0, 10, 12, 2000000, 2000000010}

StageRec(stage, ts) == [ts_aligned_ns |-> ts, kv |-> [form |-> "map", stage |-> stage]]

\* feed "any": events of any stage with any timestamp of TS
AddAny ==
  /\ feed = "any"
  /\ Len(addedA) + Len(addedB) < MaxAdds
  /\ \E stage \in Stages, ts \in TS : Add(StageRec(stage, ts))

\* the timestamp of the event added last, 0 before any
LastTs(q) == IF q = <<>> THEN 0 ELSE q[Len(q)].ts_aligned_ns
NewestTs == IF LastTs(addedA) >= LastTs(addedB) THEN LastTs(addedA) ELSE LastTs(addedB)

\* feed "sorted": a pipeline stream whose timestamps never decrease, with
\* gaps within and beyond the window
TSorted == {0, 12, 2000000010}

AddSorted ==
  /\ feed = "sorted"
  /\ Len(addedA) + Len(addedB) < MaxSorted
  /\ \E stage \in {StageA, StageB}, ts \in TSorted :
       /\ ts >= NewestTs
       /\ Add(StageRec(stage, ts))

\* feeds "rampA", "rampB": the k-th event of a stage carries timestamp k;
\* the ramped stage gets enough events to overflow its queue
RampCap(stage) ==
  IF (feed = "rampA" /\ stage = StageA) \/ (feed = "rampB" /\ stage = StageB)
  THEN MaxRamp ELSE MaxShort

AddRamp ==
  /\ feed \in {"rampA", "rampB"}
  /\ \E stage \in {StageA, StageB} :
       LET n == IF stage = StageA THEN Len(addedA) ELSE Len(addedB)
       IN  /\ n < RampCap(stage)
           /\ Add(StageRec(stage, n + 1))

\* ------------------------------------------------------------------------
\* Input lines
\* ------------------------------------------------------------------------
\* An optional value is <<>> (absent) or <<v>>.
\* A line is [form, ts_ns, source, kv, device_info]:
\*   form "garbage": not JSON; "scalar": JSON, but no object; "object".
\*   kv is [form, stage, p_sys, power_w, power]: form "absent" (no kv key),
\*   "notmap" (kv is no object) or "map"; power is <<>> or <<list of rails>>,
\*   a rail [power |-> <<>> or <<w>>].
NoKv == [form |-> "absent", stage |-> None, p_sys |-> <<>>, power_w |-> <<>>, power |-> <<>>]
BadKv == [NoKv EXCEPT !.form = "notmap"]
StageKv(stage) == [NoKv EXCEPT !.form = "map", !.stage = stage]
PowerKv(p_sys, power_w, power) ==
  [NoKv EXCEPT !.form = "map", !.p_sys = p_sys, !.power_w = power_w, !.power = power]

Garbage == [form |-> "garbage", ts_ns |-> <<>>, source |-> None, kv |-> NoKv, device_info |-> <<>>]
Scalar == [Garbage EXCEPT !.form = "scalar"]
Obj(ts, source, kv, dev) ==
  [form |-> "object", ts_ns |-> ts, source |-> source, kv |-> kv, device_info |-> dev]

Keys == <<"pipeline", "telemetry", "benchlab">>
KeySet == {Keys[i] : i \in 1..Len(Keys)}

\* what the producers may append to each file
Pool(key) ==
  IF key = "pipeline" THEN
    { Obj(<<0>>, "pipeline", StageKv(StageA), <<>>),
      Obj(<<10>>, "pipeline", StageKv(StageB), <<>>),
      Obj(<<12>>, "pipeline", StageKv("inference_done"), <<>>),
      Obj(<<>>, "pipeline", StageKv(StageA), <<>>),
      Obj(<<12>>, "pipeline", StageKv(StageA), <<>>),
      Garbage }
  ELSE IF key = "telemetry" THEN
    { Obj(<<5>>, "gpu.nvml", PowerKv(<<>>, <<220>>, <<>>), <<>>),
      Obj(<<5>>, "cpu.psutil", BadKv, <<>>),
      Obj(<<5>>, "pipeline", StageKv(StageA), <<>>),
      Scalar }
  ELSE
    { Obj(<<7>>, "benchlab.usb", PowerKv(<<3>>, <<>>, <<>>), <<"uidA">>),
      Obj(<<8>>, "benchlab.usb",
          PowerKv(<<>>, <<9>>, <<<<[power |-> <<5>>], [power |-> <<7>>]>>>>), <<"uidB">>),
      Obj(<<9>>, "benchlab.usb",
          PowerKv(<<>>, <<>>, <<<<[power |-> <<5>>], [power |-> <<>>]>>>>), <<>>),
      Obj(<<9>>, "benchlab.usb", PowerKv(<<0>>, <<>>, <<>>), <<>>),
      Obj(<<9>>, "benchlab.usb", BadKv, <<>>) }

\* feed "muxramp": the n-th line of a file carries timestamp n; the pipeline
\* file gets stage-A events, enough to overflow the queue, and stage-B
\* events after them; the telemetry file also gets lines that are no
\* records
RampPool(key, n) ==
  IF key = "pipeline" THEN
    { Obj(<<n>>, "pipeline", StageKv(stage), <<>>) :
        stage \in IF n > MAX_BUFFER_SIZE THEN {StageA, StageB} ELSE {StageA} }
  ELSE IF key = "telemetry" THEN
    { Obj(<<n>>, "gpu.nvml", PowerKv(<<>>, <<220>>, <<>>), <<>>), Garbage, Scalar }
  ELSE
    { Obj(<<n>>, "benchlab.usb", PowerKv(<<3>>, <<>>, <<>>), <<"uidA">>) }

\* the lines the producer of a file may append as its n-th line
Lines(key, n) == IF feed = "muxramp" THEN RampPool(key, n) ELSE Pool(key)

\* the producers may append a line to a file: feed "mux" bounds the lines
\* and the unread lines of all files together; feed "muxramp"
\* bounds the lines of each file, and a line is appended when no file has
\* an unread line
MayWrite(key) ==
  IF feed = "muxramp"
  THEN /\ written[key] < MaxRamp
       /\ \A k \in KeySet : pending[k] = <<>>
  ELSE /\ written["pipeline"] + written["telemetry"] + written["benchlab"] < MaxLines
       /\ Len(pending["pipeline"]) + Len(pending["telemetry"])
            + Len(pending["benchlab"]) < MaxAhead

\* ------------------------------------------------------------------------
\* Decoding and the Power Correlator
\* ------------------------------------------------------------------------
\* mutant of DecodeFails: the ValueError of json.loads is not caught as such
DecodeNeverFails(line) == FALSE

\* json.loads(line) raises
DecodeFails(line) == line.form = "garbage"

\* rec["ts_ns"] raises: rec is no mapping (TypeError) or has no ts_ns (KeyError)
AlignFails(line) == line.form = "scalar" \/ line.ts_ns = <<>>

\* rec.get("kv", {}).get(...) raises AttributeError in the benchlab and
\* pipeline branches
KvFails(key, line) == key \in {"benchlab", "pipeline"} /\ line.kv.form = "notmap"

\* the record after rec["ts_aligned_ns"] = rec["ts_ns"]
Aligned(line) ==
  [ts_ns |-> line.ts_ns[1], ts_aligned_ns |-> line.ts_ns[1], source |-> line.source,
   kv |-> line.kv, device_info |-> line.device_info]

\* Python truthiness of an optional number
Truthy(x) == x # <<>> /\ x[1] # 0

\* p = kv.get("p_sys") or kv.get("power_w")
LegacyPower(kv) == IF Truthy(kv.p_sys) THEN kv.p_sys ELSE kv.power_w

\* float(rail_data.get("power", 0))
RailPower(rail) == IF rail.power = <<>> THEN 0 ELSE rail.power[1]

\* total_power after the loop over kv["power"]
RECURSIVE TotalPower(_)
TotalPower(rails) ==
  IF rails = <<>> THEN 0 ELSE RailPower(Head(rails)) + TotalPower(Tail(rails))

\* mutant of PowerAfter: the legacy value assigned after the rail total
PowerAfterLegacyLast(lp, kv) ==
  LET total == IF kv.power # <<>> THEN <<TotalPower(kv.power[1])>> ELSE lp
  IN  IF LegacyPower(kv) # <<>> THEN LegacyPower(kv) ELSE total

\* mutant of PowerAfter: a record without a power value resets last_power
PowerAfterReset(lp, kv) ==
  LET legacy == IF LegacyPower(kv) # <<>> THEN LegacyPower(kv) ELSE <<>>
  IN  IF kv.power # <<>> THEN <<TotalPower(kv.power[1])>> ELSE legacy

\* last_power after the benchlab branch
PowerAfter(lp, kv) ==
  LET legacy == IF LegacyPower(kv) # <<>> THEN LegacyPower(kv) ELSE lp
  IN  IF kv.power # <<>> THEN <<TotalPower(kv.power[1])>> ELSE legacy

\* the record has one of the power fields the benchlab branch reads
PowerBearing(kv) == kv.p_sys # <<>> \/ kv.power_w # <<>> \/ kv.power # <<>>

\* mutant of DeviceAfter: device_info_set is not tested
DeviceAfterAlways(set, dev, info) == IF info # <<>> THEN info ELSE dev

\* the identity published after the device-info block: set once
DeviceAfter(set, dev, info) == IF ~set /\ info # <<>> THEN info ELSE dev

\* the record written for a pair: t_ns, lat_ms and pair moved under
\* ts_aligned_ns and kv, stamped with last_power
Persisted(pr, lp) ==
  [ts_aligned_ns |-> pr.t_ns, source |-> "metric.latency",
   kv |-> [lat_ms |-> pr.lat_ms, pair |-> pr.pair, power_w |-> lp]]

RECURSIVE PersistAll(_, _)
PersistAll(prs, lp) ==
  IF prs = <<>> THEN <<>> ELSE <<Persisted(Head(prs), lp)>> \o PersistAll(Tail(prs), lp)

\* mutant of WriteFlush: no f.flush()
WriteOnly(f, rec) == [disk |-> f.disk, buf |-> Append(f.buf, rec)]

\* f.write(json.dumps(rec) + "\n"); f.flush() on the output file, f being
\* [disk, buf]: what the file holds and what the file object still buffers
WriteFlush(f, rec) == [disk |-> f.disk \o Append(f.buf, rec), buf |-> <<>>]

\* the body of `for pr in pairer.pairs()` for every record of recs
RECURSIVE WriteFlushAll(_, _)
WriteFlushAll(f, recs) ==
  IF recs = <<>> THEN f ELSE WriteFlushAll(WriteFlush(f, Head(recs)), Tail(recs))

\* ------------------------------------------------------------------------
\* The scheduling loop
\* ------------------------------------------------------------------------
MuxInit ==
  /\ written = [k \in KeySet |-> 0]
  /\ pending = [k \in KeySet |-> <<>>]
  /\ opened = [k \in KeySet |-> FALSE]
  /\ waiting = None
  /\ mpc = Keys[1]
  /\ last_power = <<>>
  /\ device_info_set = FALSE
  /\ i_device = <<>>
  /\ g_total_power = <<>>
  /\ g_latency = <<>>
  /\ c_dropped = 0
  /\ aligned_latency = <<>>
  /\ unflushed = <<>>
  /\ openpos = [k \in KeySet |-> 0]
  /\ power_rec = <<>>
  /\ mlast = [key |-> None, got |-> "init", line |-> Garbage, a |-> <<>>, b |-> <<>>,
              power |-> <<>>, dev |-> <<>>, written |-> <<>>]

\* mutant of NextKey: the second reader is left out of the round
NextKeySkips(key) == IF key = Keys[1] THEN Keys[3] ELSE "sleep"

\* mutant of NextKey: the loop stays at the reader it polled
NextKeySame(key) == key

\* the for loop moves to the next reader, or to the sleep that ends the round
NextKey(key) ==
  IF key = Keys[1] THEN Keys[2] ELSE IF key = Keys[2] THEN Keys[3] ELSE "sleep"

Snapshot(key, got, line) ==
  [key |-> key, got |-> got, line |-> line, a |-> bufA, b |-> bufB,
   power |-> last_power, dev |-> i_device, written |-> aligned_latency]

\* a producer appends one line to its file
WriteLine(key) ==
  /\ MayWrite(key)
  /\ \E line \in Lines(key, written[key] + 1) :
       pending' = [pending EXCEPT ![key] = Append(@, line)]
  /\ written' = [written EXCEPT ![key] = @ + 1]
  /\ UNCHANGED <<opened, waiting, mpc, last_power, device_info_set, i_device,
                 g_total_power, g_latency, c_dropped, aligned_latency,
                 unflushed, openpos, power_rec, mlast>>
  /\ UNCHANGED pvars

\* mutant of SeekEnd: the file is read from its start
SeekStart(pend, key) == pend

\* f.seek(0, os.SEEK_END): no line written so far is beyond the offset
SeekEnd(pend, key) == [pend EXCEPT ![key] = <<>>]

\* the first next(gen) starts the body of tail_file: open, seek to the end
Open(key) ==
  /\ mpc = key
  /\ ~opened[key]
  /\ opened' = [opened EXCEPT ![key] = TRUE]
  /\ pending' = SeekEnd(pending, key)
  /\ openpos' = [openpos EXCEPT ![key] = written[key]]
  /\ UNCHANGED <<written, waiting, mpc, last_power, device_info_set, i_device,
                 g_total_power, g_latency, c_dropped, aligned_latency,
                 unflushed, power_rec, mlast>>
  /\ UNCHANGED pvars

\* readline returns "": the generator enters time.sleep(0.05)
PollEmpty(key) ==
  /\ mpc = key
  /\ opened[key]
  /\ waiting = None
  /\ pending[key] = <<>>
  /\ waiting' = key
  /\ mlast' = Snapshot(key, "none", Garbage)
  /\ UNCHANGED <<written, pending, opened, mpc, last_power, device_info_set, i_device,
                 g_total_power, g_latency, c_dropped, aligned_latency,
                 unflushed, openpos, power_rec>>
  /\ UNCHANGED pvars

\* the sleep ends: continue, back to readline
Retry(key) ==
  /\ mpc = key
  /\ waiting = key
  /\ waiting' = None
  /\ UNCHANGED <<written, pending, opened, mpc, last_power, device_info_set, i_device,
                 g_total_power, g_latency, c_dropped, aligned_latency,
                 unflushed, openpos, power_rec, mlast>>
  /\ UNCHANGED pvars

\* readline returns a line and the generator yields it
Yields(key) ==
  /\ mpc = key
  /\ opened[key]
  /\ waiting = None
  /\ pending[key] # <<>>
  /\ pending' = [pending EXCEPT ![key] = Tail(@)]
  /\ waiting' = None
  /\ mlast' = Snapshot(key, "line", Head(pending[key]))

\* json.loads raises: continue
SkipUndecodable(key) ==
  /\ Yields(key)
  /\ DecodeFails(Head(pending[key]))
  /\ mpc' = NextKey(key)
  /\ UNCHANGED <<written, opened, last_power, device_info_set, i_device,
                 g_total_power, g_latency, c_dropped, aligned_latency,
                 unflushed, openpos, power_rec>>
  /\ UNCHANGED pvars

\* an exception no handler catches ends main
Crash(key) ==
  /\ Yields(key)
  /\ LET line == Head(pending[key])
     IN  /\ ~DecodeFails(line)
         /\ AlignFails(line) \/ KvFails(key, line)
  /\ mpc' = "crashed"
  /\ UNCHANGED <<written, opened, last_power, device_info_set, i_device,
                 g_total_power, g_latency, c_dropped, aligned_latency,
                 unflushed, openpos, power_rec>>
  /\ UNCHANGED pvars

Handled(key) ==
  LET line == Head(pending[key])
  IN  ~DecodeFails(line) /\ ~AlignFails(line) /\ ~KvFails(key, line)

\* key == "benchlab".  The gauges of the raw channels (voltages, per-rail
\* voltage/current/power, fans, temperatures, humidity, vdd, vref,
\* calibration) are set and never read by the loop; they are left out, and
\* so are the exceptions float() raises on a non-numeric channel value.
HandleBenchlab ==
  /\ Yields("benchlab")
  /\ Handled("benchlab")
  /\ LET rec == Aligned(Head(pending["benchlab"]))
     IN  /\ last_power' = PowerAfter(last_power, rec.kv)
         /\ g_total_power' =
              IF rec.kv.power # <<>> THEN <<TotalPower(rec.kv.power[1])>> ELSE g_total_power
         /\ i_device' = DeviceAfter(device_info_set, i_device, rec.device_info)
         /\ device_info_set' = (device_info_set \/ rec.device_info # <<>>)
         /\ power_rec' = IF PowerBearing(rec.kv) THEN <<rec.kv>> ELSE power_rec
  /\ mpc' = NextKey("benchlab")
  /\ UNCHANGED <<written, opened, g_latency, c_dropped, aligned_latency,
                 unflushed, openpos>>
  /\ UNCHANGED pvars

\* key == "pipeline"; the harness records no fates here
HandlePipeline ==
  /\ Yields("pipeline")
  /\ Handled("pipeline")
  /\ LET rec == Aligned(Head(pending["pipeline"]))
         s == Pairs(AddA(bufA, rec), AddB(bufB, rec))
     IN  /\ bufA' = s.a
         /\ bufB' = s.b
         /\ LET f == WriteFlushAll([disk |-> aligned_latency, buf |-> unflushed],
                                   PersistAll(s.o, last_power))
            IN  aligned_latency' = f.disk /\ unflushed' = f.buf
         /\ g_latency' = IF s.o = <<>> THEN g_latency ELSE <<s.o[Len(s.o)].lat_ms>>
         /\ addedA' = IF StageOf(rec) = StageA THEN Append(addedA, rec) ELSE addedA
         /\ addedB' = IF StageOf(rec) = StageB THEN Append(addedB, rec) ELSE addedB
  /\ mpc' = NextKey("pipeline")
  /\ UNCHANGED <<written, opened, last_power, device_info_set, i_device,
                 g_total_power, c_dropped, openpos, power_rec>>
  /\ UNCHANGED <<out, ppc, ret, last, feed, phase, fate>>

\* mutant of HandleOther: the power field of a telemetry record is tracked
HandleOtherPower ==
  /\ Yields("telemetry")
  /\ Handled("telemetry")
  /\ last_power' = PowerAfter(last_power, Aligned(Head(pending["telemetry"])).kv)
  /\ mpc' = NextKey("telemetry")
  /\ UNCHANGED <<written, opened, device_info_set, i_device,
                 g_total_power, g_latency, c_dropped, aligned_latency,
                 unflushed, openpos, power_rec>>
  /\ UNCHANGED pvars

\* any other key: the record is decoded, aligned and dropped
HandleOther ==
  /\ Yields("telemetry")
  /\ Handled("telemetry")
  /\ mpc' = NextKey("telemetry")
  /\ UNCHANGED <<written, opened, last_power, device_info_set, i_device,
                 g_total_power, g_latency, c_dropped, aligned_latency,
                 unflushed, openpos, power_rec>>
  /\ UNCHANGED pvars

\* time.sleep(0.01) after the for loop
Sleep ==
  /\ mpc = "sleep"
  /\ mpc' = Keys[1]
  /\ UNCHANGED <<written, pending, opened, waiting, last_power, device_info_set,
                 i_device, g_total_power, g_latency, c_dropped, aligned_latency,
                 unflushed, openpos, power_rec, mlast>>
  /\ UNCHANGED pvars

\* the steps of the multiplexer process
MuxStep ==
  /\ \/ \E key \in KeySet : Open(key)
     \/ \E key \in KeySet : PollEmpty(key)
     \/ \E key \in KeySet : Retry(key)
     \/ \E key \in KeySet : SkipUndecodable(key)
     \/ \E key \in KeySet : Crash(key)
     \/ HandlePipeline
     \/ HandleOther
     \/ HandleBenchlab
     \/ Sleep
  /\ UNCHANGED <<cvars, tvars, rvars>>

\* the steps of the producers
Produce == (\E key \in KeySet : WriteLine(key)) /\ UNCHANGED <<cvars, tvars, rvars>>

\* ------------------------------------------------------------------------
\* The producer's writes and the reader's polls, character by character
\* ------------------------------------------------------------------------
\* characters are numbers: 10 * n + k is the k-th character of the body of
\* record n, 10 * n the newline that ends its line
LineParts == 2
IsNewline(c) == c % 10 = 0

\* json.dumps(payload) + "\n" for the n-th record
Encode(n) == [k \in 1..(LineParts + 1) |-> IF k <= LineParts THEN 10 * n + k ELSE 10 * n]

\* f.readline() at position pos of the characters f: up to and including
\* the next newline, or up to the end of the file when there is none
Readline(f, pos) ==
  LET ends == {i \in (pos + 1)..Len(f) : IsNewline(f[i])}
      stop == IF ends = {} THEN Len(f)
              ELSE CHOOSE i \in ends : \A j \in ends : i <= j
  IN  SubSeq(f, pos + 1, stop)

\* json.loads(line): <<n>> when the line is the whole body of record n, with
\* or without its newline; <<>> when it raises
Loads(line) ==
  LET body == IF line # <<>> /\ IsNewline(line[Len(line)])
              THEN SubSeq(line, 1, Len(line) - 1) ELSE line
  IN  IF /\ Len(body) = LineParts
         /\ \A k \in 1..LineParts : body[k] = 10 * (body[1] \div 10) + k
      THEN <<body[1] \div 10>>
      ELSE <<>>

TailInit ==
  /\ tfile = <<>>
  /\ wbuf = <<>>
  /\ twritten = 0
  /\ topen = <<>>
  /\ rpos = 0
  /\ tdec = <<>>
  /\ tskipped = <<>>
  /\ tgot = "init"

\* write_event: the line goes to the buffer of the file object
TailWrite ==
  /\ twritten < MaxRecords
  /\ twritten' = twritten + 1
  /\ wbuf' = wbuf \o Encode(twritten + 1)
  /\ UNCHANGED <<tfile, topen, rpos, tdec, tskipped, tgot>>

\* the file object hands buffered characters to the file; write_event calls
\* no flush at a line's end, and a write may be cut short or be seen half
\* done by a read that overlaps it, so any number of characters may arrive
TailFlush ==
  /\ wbuf # <<>>
  /\ \E k \in 1..Len(wbuf) :
       /\ tfile' = tfile \o SubSeq(wbuf, 1, k)
       /\ wbuf' = SubSeq(wbuf, k + 1, Len(wbuf))
  /\ UNCHANGED <<twritten, topen, rpos, tdec, tskipped, tgot>>

\* where the next readline starts: the end of the file at the first poll
\* (open and seek), the reader's position afterwards
ReadFrom == IF topen = <<>> THEN Len(tfile) ELSE rpos

\* one poll of tail_file followed by the json.loads of the main loop
TailPoll ==
  LET line == Readline(tfile, ReadFrom)
  IN  /\ topen' = IF topen = <<>> THEN <<Len(tfile)>> ELSE topen
      /\ rpos' = ReadFrom + Len(line)
      /\ tgot' = IF line = <<>> THEN "empty"
                 ELSE IF Loads(line) = <<>> THEN "skip" ELSE "record"
      /\ tdec' = IF line # <<>> /\ Loads(line) # <<>>
                 THEN Append(tdec, Loads(line)[1]) ELSE tdec
      /\ tskipped' = IF line # <<>> /\ Loads(line) = <<>>
                     THEN Append(tskipped, line) ELSE tskipped
      /\ UNCHANGED <<tfile, wbuf, twritten>>

TNext ==
  /\ TailWrite \/ TailFlush \/ TailPoll
  /\ UNCHANGED <<pvars, mvars, cvars, rvars>>

\* ------------------------------------------------------------------------
\* retentiond main
\* ------------------------------------------------------------------------
\* the defaults of --days and --raw-keep-days
RETENTION_DAYS == 90
RAW_KEEP_DAYS == 7

\* ages in days of the session directories there may be
Ages == {5, 30, 100}

\* the entries root.iterdir() may give: a session directory of some age,
\* with or without its raw directory, or a plain file
Entries == [age : Ages, raw : BOOLEAN, dir : BOOLEAN, there : BOOLEAN]

\* the attributes of the namespace parse_args returns: argparse stores
\* --run-once as run_once
ArgsAttrs == {"data_root", "days", "raw_keep_days", "run_once"}

\* if not args.run-once: Python reads the test as not (args.run - once), and
\* evaluates args.run first; without that attribute AttributeError leaves
\* main. Otherwise main returns, or sleeps for ever in while True
AfterSweep(ro) ==
  IF "run" \notin ArgsAttrs THEN "error"
  ELSE IF ro THEN "returned" ELSE "sleeping"

RetIdle ==
  /\ rpc = "idle"
  /\ run_once = FALSE
  /\ root_exists = FALSE
  /\ sess = <<>>
  /\ ridx = 0

\* main is started: arguments parsed, root looked up
RetStart ==
  /\ rpc = "idle"
  /\ \E ro \in BOOLEAN, ex \in BOOLEAN, n \in 0..MaxSessions :
       \E ss \in [1..n -> {e \in Entries : e.there}] :
         /\ run_once' = ro
         /\ root_exists' = ex
         /\ sess' = IF ex THEN ss ELSE <<>>
         /\ rpc' = IF ex THEN "sweep" ELSE "returned"
         /\ ridx' = IF ex THEN 1 ELSE 0

\* one round of the for loop; rmtree may fail, and the failure is swallowed
RetSweep ==
  /\ rpc = "sweep"
  /\ ridx <= Len(sess)
  /\ LET e == sess[ridx]
     IN  \E rawgone \in BOOLEAN, sessgone \in BOOLEAN :
           LET raw == IF e.dir /\ e.raw /\ e.age > RAW_KEEP_DAYS /\ rawgone
                      THEN FALSE ELSE e.raw
               gone == e.dir /\ e.age > RETENTION_DAYS /\ sessgone
           IN  sess' = [sess EXCEPT ![ridx] =
                          [e EXCEPT !.raw = IF gone THEN FALSE ELSE raw,
                                    !.there = ~gone]]
  /\ ridx' = ridx + 1
  /\ UNCHANGED <<rpc, run_once, root_exists>>

\* the for loop is over: the test at the end of main
RetAfter ==
  /\ rpc = "sweep"
  /\ ridx > Len(sess)
  /\ rpc' = AfterSweep(run_once)
  /\ UNCHANGED <<run_once, root_exists, sess, ridx>>

RNext ==
  /\ RetStart \/ RetSweep \/ RetAfter
  /\ UNCHANGED <<pvars, mvars, cvars, tvars>>

\* ------------------------------------------------------------------------
\* stream_telemetry
\* ------------------------------------------------------------------------
\* no call of stream_telemetry yet
ClientIdle ==
  /\ max_retries = 3
  /\ retry_count = 0
  /\ cpc = "idle"
  /\ wait_time = 0
  /\ failed = 0
  /\ readings = 0
  /\ ended = 0

\* mutant of AfterConnect: no reset on a successful connection
AfterConnectKeeps(rc) == rc

\* retry_count = 0 inside the with block
AfterConnect(rc) == 0

\* wait_time = min(2 ** retry_count, 30)
WaitTime(rc) == Min(2 ^ rc, 30)

\* stream_telemetry(max_retries=mr) is called and its body starts
StreamCall(mr) ==
  /\ cpc = "idle"
  /\ max_retries' = mr
  /\ retry_count' = 0
  /\ failed' = 0
  /\ cpc' = "while"
  /\ UNCHANGED <<wait_time, readings, ended>>

\* while retry_count <= max_retries
LoopTest ==
  /\ cpc = "while"
  /\ cpc' = IF retry_count <= max_retries THEN "request" ELSE "done"
  /\ UNCHANGED <<max_retries, retry_count, wait_time, failed, readings, ended>>

\* the except clause: count, give up or back off
Except ==
  /\ retry_count' = retry_count + 1
  /\ failed' = failed + 1
  /\ IF retry_count + 1 > max_retries
     THEN cpc' = "raised" /\ UNCHANGED wait_time
     ELSE cpc' = "sleep" /\ wait_time' = WaitTime(retry_count + 1)
  /\ UNCHANGED <<max_retries, readings, ended>>

\* _request returns a response
ConnectOk ==
  /\ cpc = "request"
  /\ retry_count' = AfterConnect(retry_count)
  /\ failed' = 0
  /\ cpc' = "stream"
  /\ UNCHANGED <<max_retries, wait_time, readings, ended>>

\* _request raises BenchLabError: status >= 400, timeout, connection error
ConnectFails == cpc = "request" /\ Except

\* iter_lines gives a line: a reading is yielded, or the line is skipped
\* (empty, or json.loads raises)
StreamLine ==
  /\ cpc = "stream"
  /\ readings < MaxReadings
  /\ \E parsed \in BOOLEAN : readings' = IF parsed THEN readings + 1 ELSE readings
  /\ UNCHANGED <<max_retries, retry_count, cpc, wait_time, failed, ended>>

\* iter_lines raises a requests exception
StreamError == cpc = "stream" /\ Except

\* the step, were the generator to return when the server ends the stream
StreamEndsReturns ==
  /\ cpc = "stream"
  /\ ended < MaxEnds
  /\ ended' = ended + 1
  /\ cpc' = "done"
  /\ UNCHANGED <<max_retries, retry_count, wait_time, failed, readings>>

\* iter_lines is exhausted: the with block is left, back to the loop test
StreamEnds ==
  /\ cpc = "stream"
  /\ ended < MaxEnds
  /\ ended' = ended + 1
  /\ cpc' = "while"
  /\ UNCHANGED <<max_retries, retry_count, wait_time, failed, readings>>

\* time.sleep(wait_time) returns
BackoffEnds ==
  /\ cpc = "sleep"
  /\ cpc' = "while"
  /\ UNCHANGED <<max_retries, retry_count, wait_time, failed, readings, ended>>

CNext ==
  /\ \/ \E mr \in 0..MaxRetries : StreamCall(mr)
     \/ LoopTest
     \/ ConnectOk
     \/ ConnectFails
     \/ StreamLine
     \/ StreamError
     \/ StreamEnds
     \/ BackoffEnds
  /\ UNCHANGED <<pvars, mvars, tvars, rvars>>

Init == PairerInit /\ feed = "mux" /\ MuxInit /\ ClientIdle /\ TailInit /\ RetIdle

SpecClient == Init /\ [][CNext]_vars

SpecTail == Init /\ [][TNext]_vars

SpecRetention == Init /\ [][RNext]_vars

Next == MuxStep \/ Produce

Spec == Init /\ [][Next]_vars

\* the multiplexer process keeps running while it has a step to take
FairSpec == Spec /\ WF_vars(MuxStep)

\* the same loop fed long input files
RInit == PairerInit /\ feed = "muxramp" /\ MuxInit /\ ClientIdle /\ TailInit /\ RetIdle

SpecRamp == RInit /\ [][Next]_vars

\* ------------------------------------------------------------------------
\* The Pairer alone, driven by the harness
\* ------------------------------------------------------------------------
PInit == PairerInit /\ feed \in Feeds /\ MuxInit /\ ClientIdle /\ TailInit /\ RetIdle

PNext ==
  /\ AddAny \/ AddSorted \/ AddRamp \/ PairsCall \/ PairsIter \/ PairsReturn
  /\ UNCHANGED <<mvars, cvars, tvars, rvars>>

SpecPairer == PInit /\ [][PNext]_vars

\* a pairs call that was entered keeps running: nothing preempts the loop
PairsRuns == (PairsIter \/ PairsReturn) /\ UNCHANGED <<mvars, cvars, tvars, rvars>>

FairSpecPairer == SpecPairer /\ WF_<<ppc, bufA, bufB>>(PairsRuns)

\* ------------------------------------------------------------------------
\* Properties of the Pairer
\* ------------------------------------------------------------------------
TsOf(q) == {q[i].ts_aligned_ns : i \in 1..Len(q)}

\* all timestamps of the events added so far are within WINDOW_NS of each other
AllWithinWindow ==
  \A x \in TsOf(addedA) \cup TsOf(addedB), y \in TsOf(addedA) \cup TsOf(addedB) :
    Abs(x - y) <= WINDOW_NS

\* the first pairs call has returned and nothing was added since
FirstDrainDone == phase = "first" /\ ppc = "idle" /\ last.op = "return"

\* the list returned pairs the i-th A event added with the i-th B event added
PairsOldestFirst ==
  /\ Len(ret[1]) = Min(Len(addedA), Len(addedB))
  /\ \A i \in 1..Len(ret[1]) :
       ret[1][i] = Sample(addedA[i].ts_aligned_ns, addedB[i].ts_aligned_ns)

\* C1 as stated: events within WINDOW_NS of each other, added and then
\* drained, give min(count_A, count_B) samples, the i-th pairing the i-th
\* oldest A event with the i-th oldest B event, for all counts.
C1_AllCounts == (FirstDrainDone /\ AllWithinWindow) => PairsOldestFirst

\* C1 amended: the same for counts of at most MAX_BUFFER_SIZE per stage.
C1_UpToCapacity ==
  (/\ FirstDrainDone
   /\ AllWithinWindow
   /\ Len(addedA) <= MAX_BUFFER_SIZE
   /\ Len(addedB) <= MAX_BUFFER_SIZE) => PairsOldestFirst

C1_Witness ==
  /\ FirstDrainDone
  /\ AllWithinWindow
  /\ Len(addedA) = MAX_BUFFER_SIZE
  /\ Len(addedB) = 2
  /\ Len(ret[1]) = 2

\* the heads the last loop iteration compared
LastTa == Head(last.a).ts_aligned_ns
LastTb == Head(last.b).ts_aligned_ns

\* C2: an iteration that finds the heads more than WINDOW_NS apart removes
\* exactly the head with the smaller timestamp, emits nothing and leaves the
\* other queue alone; an A event at 0 followed by a B event more than
\* WINDOW_NS later gives no sample, the A event removed, the B event kept.
C2_DiscardOlder ==
  /\ (last.op = "iter" /\ Abs(LastTb - LastTa) > WINDOW_NS) =>
       /\ out = last.o
       /\ LastTa < LastTb => (bufA = Tail(last.a) /\ bufB = last.b)
       /\ LastTb < LastTa => (bufB = Tail(last.b) /\ bufA = last.a)
  /\ (/\ FirstDrainDone
      /\ Len(addedA) = 1
      /\ Len(addedB) = 1
      /\ addedB[1].ts_aligned_ns - addedA[1].ts_aligned_ns > WINDOW_NS) =>
       (ret = <<<<>>>> /\ bufA = <<>> /\ bufB = addedB)

C2_Witness ==
  /\ FirstDrainDone
  /\ addedA = <<StageRec(StageA, 0)>>
  /\ addedB = <<StageRec(StageB, 2000000010)>>
  /\ ret = <<<<>>>>
  /\ bufB = addedB

\* C3: every sample pairs events at most WINDOW_NS apart, and heads exactly
\* WINDOW_NS apart are paired, not discarded.
C3_WithinWindow ==
  /\ \A i \in 1..Len(out) : Abs(out[i].lat_ms.num) <= WINDOW_NS
  /\ (last.op = "iter" /\ Abs(LastTb - LastTa) = WINDOW_NS) =>
       /\ out = Append(last.o, Sample(LastTa, LastTb))
       /\ bufA = Tail(last.a)
       /\ bufB = Tail(last.b)

C3_Witness ==
  /\ last.op = "iter"
  /\ LastTb - LastTa = WINDOW_NS
  /\ out = Append(last.o, Sample(LastTa, LastTb))

\* C4: add of a matching-stage event onto a queue holding MAX_BUFFER_SIZE
\* events removes the oldest and appends the new one at the tail, and
\* leaves the other queue unchanged.
C4_EvictOldest ==
  /\ (last.op = "add" /\ StageOf(last.rec[1]) = StageA /\ Len(last.a) = MAX_BUFFER_SIZE) =>
       (bufA = Append(Tail(last.a), last.rec[1]) /\ bufB = last.b)
  /\ (last.op = "add" /\ StageOf(last.rec[1]) = StageB /\ Len(last.b) = MAX_BUFFER_SIZE) =>
       (bufB = Append(Tail(last.b), last.rec[1]) /\ bufA = last.a)

C4_Witness ==
  /\ last.op = "add"
  /\ StageOf(last.rec[1]) = StageB
  /\ Len(last.b) = MAX_BUFFER_SIZE
  /\ Len(bufB) = MAX_BUFFER_SIZE
  /\ bufB[MAX_BUFFER_SIZE] = last.rec[1]
  /\ last.a # <<>>

\* C5: in every reachable state each stage queue holds at most
\* MAX_BUFFER_SIZE events.
C5_Bounded == Len(bufA) <= MAX_BUFFER_SIZE /\ Len(bufB) <= MAX_BUFFER_SIZE

C5_Witness ==
  /\ last.op = "add"
  /\ Len(last.a) = MAX_BUFFER_SIZE
  /\ Len(bufA) = MAX_BUFFER_SIZE
  /\ Len(addedA) > MAX_BUFFER_SIZE

\* the fraction x equals n/d
RatEq(x, n, d) == x.num * d = n * x.den

\* the last iteration paired its heads
LastPaired == last.op = "iter" /\ Len(out) = Len(last.o) + 1
Newest == out[Len(out)]

C18_UnmatchedIgnored ==
  (last.op = "add" /\ StageOf(last.rec[1]) \notin {StageA, StageB}) =>
    /\ bufA = last.a
    /\ bufB = last.b
    /\ Pairs(bufA, bufB).o = Pairs(last.a, last.b).o
    /\ (last.a = <<>> \/ last.b = <<>>) => Pairs(bufA, bufB).o = <<>>

C18_Witness ==
  /\ last.op = "add"
  /\ StageOf(last.rec[1]) = None
  /\ last.a = <<>>
  /\ Len(last.b) = 2
  /\ bufB = last.b
  /\ bufA = <<>>

\* the last n elements of q
LastN(q, n) == SubSeq(q, Len(q) - n + 1, Len(q))

\* C20: each queue holds the most recently added events of its stage, in
\* the order they were added; an iteration of the pairs loop removes
\* nothing but heads, and a sample is made of the two heads; with serial
\* timestamps the A events and the B events of successive samples are in
\* the order they were added.
C20_FifoNoLookahead ==
  /\ bufA = LastN(addedA, Len(bufA))
  /\ bufB = LastN(addedB, Len(bufB))
  /\ last.op = "iter" =>
       /\ bufA \in {last.a, Tail(last.a)}
       /\ bufB \in {last.b, Tail(last.b)}
       /\ out # last.o =>
            /\ out = Append(last.o, Sample(LastTa, LastTb))
            /\ bufA = Tail(last.a)
            /\ bufB = Tail(last.b)
  /\ feed \in {"rampA", "rampB"} =>
       \A i \in 1..(Len(out) - 1) :
         /\ out[i].t_ns < out[i + 1].t_ns
         /\ out[i].t_ns + out[i].lat_ms.num < out[i + 1].t_ns + out[i + 1].lat_ms.num

C20_Witness ==
  /\ feed = "rampA"
  /\ last.op = "iter"
  /\ Len(addedA) > MAX_BUFFER_SIZE
  /\ Len(last.a) = MAX_BUFFER_SIZE - 1
  /\ Len(last.b) = 1
  /\ Len(out) = 2
  /\ out[1].t_ns < out[2].t_ns
  /\ out[2].t_ns = LastTa

\* C21: every iteration of the pairs loop removes at least one buffered
\* event, a pairs call that was entered returns, and when it has returned
\* at least one of the two queues is empty.
C21_DrainTerminates ==
  /\ [](last.op = "iter" => Len(bufA) + Len(bufB) < Len(last.a) + Len(last.b))
  /\ [](last.op = "return" => (bufA = <<>> \/ bufB = <<>>))
  /\ (ppc = "pairs") ~> (ppc = "idle")

C21_Witness ==
  /\ last.op = "return"
  /\ ppc = "idle"
  /\ Len(addedA) = 2
  /\ Len(addedB) = 2
  /\ ret = <<<<>>>>
  /\ bufA = <<>>
  /\ Len(bufB) = 1

\* how many of the fates fs are v
HowMany(fs, v) == Cardinality({i \in 1..Len(fs) : fs[i] = v})

\* the events of `added` with fates fs and queue q are conserved: each has one
\* fate, the buffered ones are exactly the queue, n of them were paired, and
\* an evicted one has MAX_BUFFER_SIZE later events behind it
Conserved(fs, added, q, n) ==
  /\ Len(fs) = Len(added)
  /\ \A i \in 1..Len(fs) : fs[i] \in {"buffered", "paired", "stale", "evicted"}
  /\ \A i \in 1..Len(fs) : fs[i] = "buffered" <=> i > Len(added) - Len(q)
  /\ q = LastN(added, Len(q))
  /\ HowMany(fs, "paired") = n
  /\ \A i \in 1..Len(fs) : fs[i] = "evicted" => Len(added) >= i + MAX_BUFFER_SIZE

\* C30: every stage event added is still buffered, consumed by one emitted
\* sample, discarded by the window rule or evicted at capacity, and by one of
\* these only; each sample consumed one A and one B event, no event went to
\* two samples, and the samples are at most min(A events added, B events
\* added).
C30_Conservation ==
  /\ Conserved(fate.a, addedA, bufA, fate.n)
  /\ Conserved(fate.b, addedB, bufB, fate.n)
  /\ fate.n <= Min(Len(addedA), Len(addedB))
  /\ last.op = "iter" =>
       /\ Len(out) - Len(last.o) \in {0, 1}
       /\ Len(out) > Len(last.o) =>
            /\ Len(bufA) = Len(last.a) - 1
            /\ Len(bufB) = Len(last.b) - 1
       /\ Len(out) = Len(last.o) =>
            Len(bufA) + Len(bufB) = Len(last.a) + Len(last.b) - 1

\* an A event was evicted at capacity, others were paired with B events and
\* one is still buffered
C30_Witness ==
  /\ HowMany(fate.a, "evicted") >= 1
  /\ HowMany(fate.a, "paired") >= 1
  /\ HowMany(fate.b, "paired") >= 1
  /\ HowMany(fate.a, "buffered") >= 1
  /\ fate.n >= 1

\* the timestamps of the events q never decrease from one to the next
NonDecreasing(q) ==
  \A i \in 1..(Len(q) - 1) : q[i].ts_aligned_ns <= q[i + 1].ts_aligned_ns

\* C31: when the timestamps of the pipeline events never decrease, the
\* aligned timestamps of the samples never decrease in the order they are
\* emitted, over successive pairs calls, window discards and evictions.
C31_OutputOrder ==
  (NonDecreasing(addedA) /\ NonDecreasing(addedB)) =>
    \A i \in 1..(Len(fate.t) - 1) : fate.t[i] <= fate.t[i + 1]

\* on the sorted feed, a sample, then an event discarded by the window
\* rule, then a later sample
C31_Witness ==
  /\ feed = "sorted"
  /\ Len(fate.t) = 2
  /\ fate.t[1] < fate.t[2]
  /\ HowMany(fate.a, "stale") + HowMany(fate.b, "stale") >= 1

\* ------------------------------------------------------------------------
\* Properties of the multiplexer
\* ------------------------------------------------------------------------
\* the last poll yielded a line that went through its branch to the end
LastHandled(key) ==
  /\ mlast.key = key
  /\ mlast.got = "line"
  /\ ~DecodeFails(mlast.line) /\ ~AlignFails(mlast.line) /\ ~KvFails(key, mlast.line)

\* the sum of the power values of a rail list, a rail without one counting 0
RailSum(rails) ==
  LET f[i \in 0..Len(rails)] ==
        IF i = 0 THEN 0
        ELSE f[i - 1] + (IF rails[i].power = <<>> THEN 0 ELSE rails[i].power[1])
  IN  f[Len(rails)]

\* C7: after a benchlab record with a rail list, the tracked power is the
\* sum of the rails' power values, whatever was tracked before and whatever
\* legacy scalar the record carries.
C7_RailTotal ==
  (LastHandled("benchlab") /\ mlast.line.kv.power # <<>>) =>
    /\ last_power = <<RailSum(mlast.line.kv.power[1])>>
    /\ mlast.line.kv.power[1] = <<[power |-> <<5>>], [power |-> <<7>>]>> =>
         last_power = <<12>>

C7_Witness ==
  /\ LastHandled("benchlab")
  /\ mlast.line.kv.power = <<<<[power |-> <<5>>], [power |-> <<7>>]>>>>
  /\ mlast.line.kv.power_w = <<9>>
  /\ mlast.power = <<3>>
  /\ last_power = <<12>>

\* the pipeline reader has opened its file and an A event and a B event
\* within the window have been appended since
PairFed ==
  /\ opened["pipeline"]
  /\ \/ \E i \in 1..Len(addedA) : addedA[i].ts_aligned_ns = 0
     \/ \E i \in 1..Len(pending["pipeline"]) :
          LET l == pending["pipeline"][i]
          IN  l.form = "object" /\ l.ts_ns = <<0>> /\ StageOf(l) = StageA
  /\ \/ \E i \in 1..Len(addedB) : addedB[i].ts_aligned_ns = 10
     \/ \E i \in 1..Len(pending["pipeline"]) :
          LET l == pending["pipeline"][i]
          IN  l.form = "object" /\ l.ts_ns = <<10>> /\ StageOf(l) = StageB

\* C8: when the telemetry and benchlab files never receive a line, an A
\* event and a B event within the window appended to the pipeline file
\* after startup still lead to a persisted latency sample.
C8_OthersStarved ==
  [](written["telemetry"] = 0 /\ written["benchlab"] = 0 /\ mpc # "crashed")
    => [](PairFed => <>(aligned_latency # <<>>))

\* C9: a poll that finds no new line hands control back to the loop, which
\* goes on to the next reader.
C9_PollReturns == mlast.got = "none" => mpc # mlast.key

\* a decodable line without a required field: no object, no ts_ns, or a kv
\* that is no object
LacksRequired(line) ==
  \/ line.form = "scalar"
  \/ line.form = "object" /\ (line.ts_ns = <<>> \/ line.kv.form = "notmap")

\* C10: a decodable line that lacks a required field is dropped: the loop
\* does not abort, and the queues, the power state and the output stream
\* stay as they were.
C10_DroppedSilently ==
  (mlast.got = "line" /\ LacksRequired(mlast.line)) =>
    /\ mpc # "crashed"
    /\ bufA = mlast.a
    /\ bufB = mlast.b
    /\ last_power = mlast.power
    /\ aligned_latency = mlast.written

\* C11: a line that is no JSON, read between two valid lines of its source,
\* is skipped: the loop goes on, and the queues, the power state and the
\* output stream are what they were before the line was read.
C11_SkipsMalformed ==
  (mlast.got = "line" /\ mlast.line.form = "garbage") =>
    /\ mpc # "crashed"
    /\ bufA = mlast.a
    /\ bufB = mlast.b
    /\ last_power = mlast.power
    /\ aligned_latency = mlast.written

C11_Witness ==
  /\ mlast.key = "pipeline"
  /\ mlast.got = "line"
  /\ mlast.line.form = "garbage"
  /\ mlast.a # <<>>
  /\ bufA = mlast.a
  /\ pending["pipeline"] = <<Obj(<<10>>, "pipeline", StageKv(StageB), <<>>)>>
  /\ mpc = "telemetry"

\* C12: every stage event that FIFO eviction removes from a full queue
\* increments the dropped-event counter: after an ingress line is handled
\* that found the A queue full, the counter is above zero.
C12_EvictionCounted ==
  (/\ LastHandled("pipeline")
   /\ StageOf(mlast.line) = StageA
   /\ Len(mlast.a) = MAX_BUFFER_SIZE) => c_dropped > 0

\* the total power a record with power fields kv carries: the sum of its
\* rails, else its legacy scalar
CarriedPower(kv) ==
  IF kv.power # <<>> THEN <<RailSum(kv.power[1])>>
  ELSE IF kv.p_sys # <<>> THEN kv.p_sys ELSE kv.power_w

\* the samples the last pipeline line added to the output stream
NewSamples == SubSeq(aligned_latency, Len(mlast.written) + 1, Len(aligned_latency))

\* C13: the power_w of each persisted sample is the total power of the
\* power-bearing benchlab record most recently handled when the sample is
\* emitted, and null exactly when no such record was handled before.
C13_PowerStamp ==
  LastHandled("pipeline") =>
    \A i \in 1..Len(NewSamples) :
      NewSamples[i].kv.power_w =
        (IF power_rec = <<>> THEN <<>> ELSE CarriedPower(power_rec[1]))

\* the samples DrainPairs emitted for the last pipeline line
Emitted ==
  Pairs(AddA(mlast.a, Aligned(mlast.line)), AddB(mlast.b, Aligned(mlast.line))).o

\* C14: the samples DrainPairs emits for a pipeline line are appended to
\* the output stream once each, in emission order, and are flushed before
\* the next line is read; no other step writes to the stream.
C14_PersistedOnce ==
  /\ unflushed = <<>>
  /\ aligned_latency =
       IF LastHandled("pipeline")
       THEN mlast.written \o PersistAll(Emitted, mlast.power)
       ELSE mlast.written

C14_Witness ==
  /\ LastHandled("pipeline")
  /\ Len(mlast.written) = 1
  /\ Len(aligned_latency) = 2
  /\ unflushed = <<>>
  /\ aligned_latency[1].ts_aligned_ns < aligned_latency[2].ts_aligned_ns
  /\ aligned_latency[2].kv.lat_ms.num = Aligned(mlast.line).ts_ns - aligned_latency[2].ts_aligned_ns

\* the timestamps of q increase from each record to the next
Increasing(q) == \A i \in 1..(Len(q) - 1) : q[i].ts_aligned_ns < q[i + 1].ts_aligned_ns

C16_OnePerTick ==
  mlast.got = "line" =>
    \/ mpc = "crashed"
    \/ mlast.key = "pipeline" /\ mpc = "telemetry"
    \/ mlast.key = "telemetry" /\ mpc = "benchlab"
    \/ mlast.key = "benchlab" /\ mpc \in {"sleep", "pipeline"}

C16_Witness ==
  /\ mlast.key = "pipeline"
  /\ mlast.got = "line"
  /\ Len(addedA) = 2
  /\ pending["pipeline"] # <<>>
  /\ pending["telemetry"] = <<>>
  /\ mpc = "telemetry"

\* C17: the published device identity is set by the first benchlab record
\* that carries one and never changes afterwards, whatever identity later
\* records carry; no other step touches it.
C17_IdentityOnce ==
  /\ i_device =
       IF LastHandled("benchlab") /\ mlast.dev = <<>>
       THEN mlast.line.device_info
       ELSE mlast.dev
  /\ device_info_set <=> i_device # <<>>

C17_Witness ==
  /\ LastHandled("benchlab")
  /\ mlast.dev = <<"uidA">>
  /\ mlast.line.device_info = <<"uidB">>
  /\ i_device = <<"uidA">>

\* C19: when, after the add of a pipeline line, the B head is earlier than
\* the A head and at most WINDOW_NS from it, the heads are still paired
\* and the sample persisted has the negative latency tb - ta; the loop gets
\* there when an encoded line precedes a later ingress line in the
\* pipeline file.
C19_NegativeLatency ==
  LastHandled("pipeline") =>
    LET rec == Aligned(mlast.line)
        qa == AddA(mlast.a, rec)
        qb == AddB(mlast.b, rec)
    IN  (/\ qa # <<>>
         /\ qb # <<>>
         /\ Head(qb).ts_aligned_ns < Head(qa).ts_aligned_ns
         /\ Head(qa).ts_aligned_ns - Head(qb).ts_aligned_ns <= WINDOW_NS) =>
          /\ NewSamples # <<>>
          /\ NewSamples[1].ts_aligned_ns = Head(qa).ts_aligned_ns
          /\ NewSamples[1].kv.lat_ms.num = Head(qb).ts_aligned_ns - Head(qa).ts_aligned_ns
          /\ NewSamples[1].kv.lat_ms.num < 0
          /\ bufA = Tail(qa)
          /\ bufB = Tail(qb)

C19_Witness ==
  /\ LastHandled("pipeline")
  /\ StageOf(mlast.line) = StageA
  /\ mlast.line.ts_ns = <<12>>
  /\ mlast.a = <<>>
  /\ Len(mlast.b) = 1
  /\ mlast.b[1].ts_aligned_ns = 10
  /\ Len(aligned_latency) = 1
  /\ aligned_latency[1].kv.lat_ms = [num |-> -2, den |-> 1000000]

\* C22: handling a record read from the telemetry file changes neither
\* queue, nor the tracked power (even when the record has a power_w field),
\* nor the output stream; handling a pipeline record never changes the
\* tracked power; handling a benchlab record changes neither queue nor the
\* output stream.
C22_Frames ==
  /\ LastHandled("telemetry") =>
       /\ bufA = mlast.a
       /\ bufB = mlast.b
       /\ last_power = mlast.power
       /\ aligned_latency = mlast.written
  /\ LastHandled("pipeline") => last_power = mlast.power
  /\ LastHandled("benchlab") =>
       /\ bufA = mlast.a
       /\ bufB = mlast.b
       /\ aligned_latency = mlast.written

C22_Witness ==
  /\ LastHandled("telemetry")
  /\ mlast.line.kv.power_w = <<220>>
  /\ mlast.power = <<3>>
  /\ last_power = <<3>>
  /\ mlast.a # <<>>
  /\ bufA = mlast.a

\* C23: after a benchlab record with a legacy scalar (p_sys or power_w) of
\* value v and no rail list is handled, the tracked power is v, also for
\* v = 0.
C23_LegacyScalar ==
  (/\ LastHandled("benchlab")
   /\ mlast.line.kv.power = <<>>
   /\ (mlast.line.kv.p_sys # <<>> \/ mlast.line.kv.power_w # <<>>)) =>
    last_power = CarriedPower(mlast.line.kv)

\* C24: a record is routed by the source it declares, whichever file it was
\* read from: an ingress record declaring source "pipeline" is added to the
\* Pairer, a record declaring another source leaves the queues alone, and
\* a record declaring a source other than the benchlab one leaves the
\* tracked power alone.
C24_RoutedBySource ==
  (mlast.got = "line" /\ LastHandled(mlast.key)) =>
    /\ (mlast.line.source = "pipeline" /\ StageOf(mlast.line) = StageA) =>
         /\ addedA # <<>>
         /\ addedA[Len(addedA)] = Aligned(mlast.line)
    /\ mlast.line.source # "pipeline" => (bufA = mlast.a /\ bufB = mlast.b)
    /\ mlast.line.source # "benchlab.usb" => last_power = mlast.power

\* C25: the tracked power is null when the loop starts; once it is not
\* null it is never null again; and it changes only while a benchlab
\* record is handled.
C25_PowerNeverNullAgain ==
  /\ mlast.got = "init" => last_power = <<>>
  /\ mlast.power # <<>> => last_power # <<>>
  /\ ~LastHandled("benchlab") => last_power = mlast.power

C25_Witness ==
  /\ LastHandled("benchlab")
  /\ mlast.power = <<3>>
  /\ mlast.line.kv.p_sys = <<0>>
  /\ last_power = <<3>>

\* C26: the loop sleeps only at the end of a round, and only after a round
\* in which no reader yielded a line: no reader is ever asleep inside its
\* poll, and when the loop is at its sleep the last poll yielded no line.
C26_SleepOnlyWhenIdle ==
  /\ waiting = None
  /\ mpc = "sleep" => mlast.got # "line"

\* the lines reader key has yielded so far
Consumed(key) ==
  IF opened[key] THEN written[key] - openpos[key] - Len(pending[key]) ELSE 0

\* C28: the numbers of lines consumed from any two input files differ by
\* at most 1: pipeline is never behind telemetry, telemetry never behind
\* benchlab, and benchlab at most one line behind pipeline.
C28_Lockstep ==
  /\ Consumed("pipeline") >= Consumed("telemetry")
  /\ Consumed("telemetry") >= Consumed("benchlab")
  /\ Consumed("benchlab") >= Consumed("pipeline") - 1

C28_Witness ==
  /\ Consumed("pipeline") = 2
  /\ Consumed("telemetry") = 1
  /\ Consumed("benchlab") = 1
  /\ pending["pipeline"] # <<>>
  /\ mpc = "telemetry"
  /\ waiting = "telemetry"

\* C29: every reader has taken its start position before any reader has
\* awaited or consumed a line: once a poll has had an outcome, all three
\* files are open.
C29_OpenAtStart ==
  mlast.got # "init" => \A key \in KeySet : opened[key]

\* ------------------------------------------------------------------------
\* Properties of stream_telemetry
\* ------------------------------------------------------------------------
\* C27: stream_telemetry raises BenchLabError exactly when more than
\* max_retries attempts in a row have failed; a connection that succeeds
\* resets the count of failures to 0; and before the k-th retry in a row
\* it waits min(2^k, 30) seconds.
C27_RetriesThenGivesUp ==
  /\ cpc = "raised" <=> failed > max_retries
  /\ cpc = "raised" => failed = max_retries + 1
  /\ retry_count = failed
  /\ cpc = "stream" => retry_count = 0
  /\ cpc = "sleep" =>
       /\ failed >= 1
       /\ wait_time = (IF failed >= 5 THEN 30
                       ELSE IF failed = 4 THEN 16
                       ELSE IF failed = 3 THEN 8
                       ELSE IF failed = 2 THEN 4 ELSE 2)
  /\ cpc # "done"

C27_Witness ==
  /\ cpc = "sleep"
  /\ max_retries = 5
  /\ failed = 5
  /\ wait_time = 30
  /\ readings = 2

\* C33: the generator never returns: the call is left only by BenchLabError
\* raised after max_retries + 1 failures in a row; when the server ends a
\* stream without an error the loop test is reached with a count of 0 and
\* no new wait time, and the next step is the next request, however many
\* streams have ended before.
C33_NeverReturns ==
  /\ [](cpc # "done")
  /\ [][cpc' = "raised" => failed' = max_retries' + 1]_vars
  /\ [][(cpc = "stream" /\ cpc' # "stream" /\ ended' # ended) =>
         (cpc' = "while" /\ retry_count' = 0 /\ wait_time' = wait_time)]_vars
  /\ [][(cpc = "while" /\ retry_count = 0) => cpc' = "request"]_vars

\* connected again after more clean ends than the retry limit allows failures
C33_Witness ==
  /\ cpc = "stream"
  /\ max_retries = 0
  /\ ended = MaxEnds
  /\ ended > max_retries + 1
  /\ wait_time = 0

\* ------------------------------------------------------------------------
\* Properties of the reader, character by character
\* ------------------------------------------------------------------------
\* how many times record n was decoded
Times(n) == Cardinality({i \in 1..Len(tdec) : tdec[i] = n})

\* record n was written wholly after the reader's start position and the
\* reader has read past its last character
ReadPast(n) ==
  /\ topen # <<>>
  /\ (n - 1) * (LineParts + 1) >= topen[1]
  /\ n * (LineParts + 1) <= rpos

\* C32: every record written after the reader's start is decoded as one
\* complete record, once, whatever part of the producer's buffer has reached
\* the file when the reader polls; no line holding a part of a record is
\* dropped as malformed.
C32_NoTornReads ==
  /\ \A n \in 1..twritten : Times(n) <= 1
  /\ \A n \in 1..twritten : ReadPast(n) => Times(n) = 1
  /\ \A i \in 1..Len(tskipped) :
       \A j \in 1..Len(tskipped[i]) : IsNewline(tskipped[i][j])

\* ------------------------------------------------------------------------
\* Properties of the retention daemon
\* ------------------------------------------------------------------------
\* C34: after the sweep the daemon started with --run-once returns, the one
\* started without it stays in its sleep loop, and no exception leaves main.
C34_EndsCleanly ==
  /\ rpc # "error"
  /\ (rpc = "returned" /\ root_exists) => run_once
  /\ rpc = "sleeping" => ~run_once

====
